---- MODULE Spec2Model ----
(***************************************************************************)
(* A model of beetsplug/metaimport.py (MetaImportPlugin): the merge of the *)
(* per-source metadata of one item (_merge_metadata_for_item), the change  *)
(* detection (_get_proposed_changes) and the application of the changes    *)
(* (_apply_changes), as _apply_album_metadata chains them.                 *)
(***************************************************************************)
EXTENDS Integers, Sequences, FiniteSets, TLC

\* Number of distinct non-empty strings a source or the library may hold.
MaxVal == 2

(***************************************************************************)
(* Python values.  A value is a record, so that values of different Python *)
(* types can be compared: None, a str ("" is PyStr(0)), an int, or a list of *)
(* values.  Equality of the records is Python's == on these values.        *)
(***************************************************************************)
PyNone == [kind |-> "none", n |-> 0, elems |-> <<>>]
PyStr(n) == [kind |-> "str", n |-> n, elems |-> <<>>]
PyInt(n) == [kind |-> "int", n |-> n, elems |-> <<>>]
PyList(s) == [kind |-> "list", n |-> 0, elems |-> s]

\* bool(value), as `if value:` and `and value` evaluate it.
Truthy(v) ==
    CASE v.kind = "none" -> FALSE
      [] v.kind = "str" -> v.n # 0
      [] v.kind = "int" -> v.n # 0
      [] v.kind = "list" -> v.elems # <<>>

\* isinstance(value, list)
IsList(v) == v.kind = "list"

\* `value in lst` on a Python list: some element equals value.
Member(value, lst) == \E i \in 1..Len(lst.elems) : lst.elems[i] = value

\* The values a source may give for a field.
Strings == {PyStr(n) : n \in 0..MaxVal}
SourceValues ==
    {PyNone, PyInt(0), PyList(<<>>), PyList(<<PyStr(1)>>)} \cup Strings

\* The metadata keys of the model, and the library items.
Fields == {"genre", "youtube_id"}
Items == {"i1", "i2"}

\* SUPPORTED_SOURCES
SUPPORTED_SOURCES == <<"youtube", "jiosaavn">>
SourceNames == {SUPPORTED_SOURCES[i] : i \in 1..Len(SUPPORTED_SOURCES)}

\* A dict with keys among Fields: a function on a subset of Fields.
Dicts(vals) == UNION {[K -> vals] : K \in SUBSET Fields}
EmptyDict == <<>>

VARIABLES
    sources,         \* self.sources: the loaded sources, in configured order
    exclude_fields,  \* config['exclude_fields']
    merge_strategy,  \* config['merge_strategy']
    metadata,        \* metadata[source][item]: the raw track dict
    raw,             \* metadata as the sources returned it
    item,            \* the item _merge_metadata_for_item is called for
    merged,          \* the local `merged` of _merge_metadata_for_item
    shared,          \* shared[key]: the source whose list object merged[key] is
    idx,             \* position of the loop over self.sources
    pc,              \* where the program is
    library,         \* library[item]: the item's attributes, getattr(item, key)
    changes,         \* the dict _get_proposed_changes returned
    applied_changes, \* the keys of _apply_changes' applied_changes
    write_failed,    \* the keys whose setattr raised
    store_calls,     \* how often item.store() was called
    warnings,        \* what self._log.warning / error reported
    album,           \* position of the loop over the albums
    src,             \* position of the loop over self.sources for the album
    queried,         \* the lookups made for the album: <<album, source>>
    failed,          \* the lookups that raised: <<album, source, scope>>
    skipped,         \* the candidate prompts not answered Apply: <<album, source, scope>>
    answered,        \* the answers at the album's prompts: <<album, sel, confirmation>>
    configured_sources, \* config['sources'].as_str_seq()
    source_plugins,  \* self.source_plugins: the instance registered for a source
    loaded,          \* how each configured source handled so far loaded
    source_tracks,   \* the tracks _match_tracks_to_items is called with
    choice,          \* the answer of ui.input_options in _match_tracks_to_items
    matched_metadata \* what _match_tracks_to_items returned

vars == <<sources, exclude_fields, merge_strategy, metadata, raw, item,
          merged, shared, idx, pc, library, changes, applied_changes,
          write_failed, store_calls, warnings, album, src, queried, failed,
          skipped, answered, configured_sources, source_plugins, loaded,
          source_tracks, choice, matched_metadata>>

\* The variables of the loop over the albums (_import_albums_metadata).
runVars == <<album, src, queried, failed, skipped, answered>>

\* The variables of the loading of the sources (__init__).
initVars == <<configured_sources, source_plugins, loaded>>

\* The variables of one call of _match_tracks_to_items.
matchVars == <<source_tracks, choice, matched_metadata>>

\* The configuration, read-only during a run.
configVars == <<sources, exclude_fields, merge_strategy>>

\* The variables _merge_metadata_for_item has nothing to do with.
applyVars == <<library, changes, applied_changes, write_failed, store_calls,
               warnings>>


\* No album-level prompt was answered yet.
NoAnswer == <<0, "", "">>

\* __init__ is over and every configured source was loaded: lines 29-42.
AllLoaded ==
    /\ configured_sources = sources
    /\ source_plugins = [s \in {sources[i] : i \in 1..Len(sources)} |->
                            CHOOSE i \in 1..Len(sources) : sources[i] = s]
    /\ loaded = [i \in 1..Len(sources) |-> "ok"]

\* _match_tracks_to_items was not called.
NoMatch ==
    /\ source_tracks = <<>>
    /\ choice = ""
    /\ matched_metadata = EmptyDict

(***************************************************************************)
(* _merge_metadata_for_item: lines 575-604.                                *)
(***************************************************************************)

\* Line 583 / 598: source in metadata and metadata[source] and
\* item in metadata[source]
HasItem(md, source, it) ==
    /\ source \in DOMAIN md
    /\ DOMAIN md[source] # {}
    /\ it \in DOMAIN md[source]

\* Contributes without the test of exclude_fields.
ContributesExcludedToo(excl, key, value) == Truthy(value)

\* Lines 586 / 601: key not in exclude_fields and value
Contributes(excl, key, value) == key \notin excl /\ Truthy(value)

\* Lines 600-602: one source under the priority strategy; the new `merged`.
PriorityMerge(excl, mg, source_meta) ==
    LET new == {k \in DOMAIN source_meta :
                    Contributes(excl, k, source_meta[k]) /\ k \notin DOMAIN mg}
    IN  [k \in DOMAIN mg \cup new |->
            IF k \in new THEN source_meta[k] ELSE mg[k]]

\* Lines 587-594: what merged[key] becomes for one contributing key, value.
AllValue(mg, key, value) ==
    IF key \notin DOMAIN mg THEN value
    ELSE IF IsList(mg[key])
         THEN IF Member(value, mg[key]) THEN mg[key]
              ELSE PyList(Append(mg[key].elems, value))
         ELSE IF mg[key] # value THEN PyList(<<mg[key], value>>)
              ELSE mg[key]

\* Lines 585-594: one source under the 'all' strategy; the new `merged`.
AllMerge(excl, mg, source_meta) ==
    LET con == {k \in DOMAIN source_meta : Contributes(excl, k, source_meta[k])}
    IN  [k \in DOMAIN mg \cup con |->
            IF k \in con THEN AllValue(mg, k, source_meta[k]) ELSE mg[k]]

\* merged[key] = value (lines 588, 602) binds merged[key] to the source's own
\* object; [merged[key], value] (line 594) is a new list.  The source whose
\* object merged[key] is, or "none".
SharedAfter(sh, mg, mg2, source) ==
    [k \in DOMAIN mg2 |->
        IF k \notin DOMAIN mg THEN source
        ELSE IF IsList(mg[k]) THEN sh[k]
        ELSE IF mg2[k] # mg[k] THEN "none" ELSE sh[k]]

\* merged[key].append(value) (line 591) changes the list object in place: the
\* dict of the source that owns the object sees the appended list.
MetadataAfter(md, sh, mg, mg2, it) ==
    [s \in DOMAIN md |->
        [i \in DOMAIN md[s] |->
            IF i # it THEN md[s][i]
            ELSE [k \in DOMAIN md[s][i] |->
                    IF /\ k \in DOMAIN mg
                       /\ sh[k] = s
                       /\ IsList(mg[k])
                    THEN mg2[k] ELSE md[s][i][k]]]]

\* Line 580: the strategy in force; anything but 'all' is the priority merge.
MergeOne(strategy, excl, mg, source_meta) ==
    IF strategy = "all" THEN AllMerge(excl, mg, source_meta)
    ELSE PriorityMerge(excl, mg, source_meta)

\* One turn of the loop over self.sources (lines 582-594, 597-602), on
\* st = [merged, shared, metadata].
MergeStep(st, strategy, excl, source, it) ==
    IF HasItem(st.metadata, source, it)
    THEN LET mg2 == MergeOne(strategy, excl, st.merged, st.metadata[source][it])
         IN [merged |-> mg2,
             shared |-> SharedAfter(st.shared, st.merged, mg2, source),
             metadata |-> MetadataAfter(st.metadata, st.shared, st.merged,
                                        mg2, it)]
    ELSE st

\* The loop over self.sources from position i on.
RECURSIVE MergeLoop(_, _, _, _, _, _)
MergeLoop(st, srcs, i, strategy, excl, it) ==
    IF i > Len(srcs) THEN st
    ELSE MergeLoop(MergeStep(st, strategy, excl, srcs[i], it), srcs, i + 1,
                   strategy, excl, it)

\* _merge_metadata_for_item(item, metadata) as a whole: the returned dict, and
\* the metadata as the call leaves it.
MergeMetadataForItem(srcs, strategy, excl, md, it) ==
    MergeLoop([merged |-> EmptyDict, shared |-> EmptyDict, metadata |-> md],
              srcs, 1, strategy, excl, it)

MergeSource ==
    /\ pc = "merge"
    /\ idx <= Len(sources)
    /\ LET st == MergeStep([merged |-> merged, shared |-> shared,
                            metadata |-> metadata],
                           merge_strategy, exclude_fields, sources[idx], item)
       IN /\ merged' = st.merged
          /\ shared' = st.shared
          /\ metadata' = st.metadata
    /\ idx' = idx + 1
    /\ UNCHANGED <<configVars, raw, item, pc>>
    /\ UNCHANGED applyVars
    /\ UNCHANGED <<runVars, initVars, matchVars>>

\* Line 604: return merged
MergeReturn ==
    /\ pc = "merge"
    /\ idx > Len(sources)
    /\ pc' = "merged"
    /\ UNCHANGED <<configVars, metadata, raw, item, merged, shared, idx>>
    /\ UNCHANGED applyVars
    /\ UNCHANGED <<runVars, initVars, matchVars>>

\* The configurations: self.sources holds supported sources only (line 36),
\* here each at most once, and is not empty when a merge runs (line 100).
SourceLists ==
    {<<s>> : s \in SourceNames}
        \cup {q \in SourceNames \X SourceNames : q[1] # q[2]}

\* What one source collected for the album of the item: nothing (the key is
\* absent, line 163), tracks of other items only, or a dict for the item.
OtherOnly == [i \in {"i2"} |-> [k \in {"genre"} |-> PyStr(1)]]
SourceResults ==
    {OtherOnly} \cup {[i \in {"i1"} |-> d] : d \in Dicts(SourceValues)}

Metadatas(srcs, results) ==
    UNION {[D -> results] : D \in SUBSET {srcs[i] : i \in 1..Len(srcs)}}

InitMerge ==
    /\ sources \in SourceLists
    /\ exclude_fields \in SUBSET Fields
    /\ merge_strategy \in {"priority", "all"}
    /\ metadata \in Metadatas(sources, SourceResults)
    /\ raw = metadata
    /\ item = "i1"
    /\ merged = EmptyDict
    /\ shared = EmptyDict
    /\ idx = 1
    /\ pc = "merge"
    /\ library = [i \in {"i1"} |-> [k \in {"genre"} |-> PyNone]]
    /\ changes = EmptyDict
    /\ applied_changes = {}
    /\ write_failed = {}
    /\ store_calls = 0
    /\ warnings = {}
    /\ album = 1
    /\ src = 1
    /\ queried = <<>>
    /\ failed = {}
    /\ skipped = {}
    /\ answered = NoAnswer
    /\ AllLoaded
    /\ NoMatch

NextMerge == MergeSource \/ MergeReturn

SpecMerge == InitMerge /\ [][NextMerge]_vars


(***************************************************************************)
(* _apply_album_metadata for one item of the album: lines 490-573.         *)
(***************************************************************************)

\* _get_proposed_changes without the comparison of line 521.
GetProposedChangesAllKnown(fs, mg) ==
    [k \in DOMAIN mg \cap DOMAIN fs |-> [current |-> fs[k], new |-> mg[k]]]

\* _get_proposed_changes(item, metadata), lines 514-529: fs is the item's
\* attributes, so hasattr(item, key) is key \in DOMAIN fs.  The read that
\* hasattr made succeeds again in getattr, and != on the values of the model
\* does not raise: the except branch is not taken.
GetProposedChanges(fs, mg) ==
    LET keys == {k \in DOMAIN mg : k \in DOMAIN fs /\ fs[k] # mg[k]}
    IN  [k \in keys |-> [current |-> fs[k], new |-> mg[k]]]

\* _apply_changes setting values['current'] where it should set values['new'].
ApplyChangesSetsCurrent(fs, chg, failing, store_fails) ==
    [fields |-> fs,
     applied_changes |-> DOMAIN chg \ failing,
     store_calls |-> IF DOMAIN chg \ failing # {} THEN 1 ELSE 0,
     warnings |-> {<<"Error setting field", k>> : k \in DOMAIN chg \cap failing},
     raised |-> FALSE]

\* _apply_changes without the try/except around setattr: the first failing
\* write leaves the function, with what was written before it.
ApplyChangesNoExcept(fs, chg, failing, store_fails) ==
    [fields |-> IF failing = {}
                THEN [k \in DOMAIN fs \cup DOMAIN chg |->
                        IF k \in DOMAIN chg THEN chg[k].new ELSE fs[k]]
                ELSE fs,
     applied_changes |-> IF failing = {} THEN DOMAIN chg ELSE {},
     store_calls |-> IF failing = {} /\ chg # <<>> THEN 1 ELSE 0,
     warnings |-> {},
     raised |-> failing # {}]

\* _apply_changes calling item.store() whether or not a field was set.
ApplyChangesAlwaysStores(fs, chg, failing, store_fails) ==
    LET applied == DOMAIN chg \ failing
    IN  [fields |-> [k \in DOMAIN fs \cup applied |->
                        IF k \in applied THEN chg[k].new ELSE fs[k]],
         applied_changes |-> applied,
         store_calls |-> 1,
         warnings |-> {<<"Error setting field", k>> : k \in DOMAIN chg \cap failing},
         raised |-> FALSE]

\* _apply_changes(item, changes), lines 554-573.  failing: the keys whose
\* setattr raises; store_fails: whether item.store() raises.  Both exceptions
\* are caught and logged (lines 561-563, 571-573).
ApplyChanges(fs, chg, failing, store_fails) ==
    LET applied == DOMAIN chg \ failing
        stored == applied # {}
    IN  [fields |-> [k \in DOMAIN fs \cup applied |->
                        IF k \in applied THEN chg[k].new ELSE fs[k]],
         applied_changes |-> applied,
         store_calls |-> IF stored THEN 1 ELSE 0,
         warnings |-> {<<"Error setting field", k>> : k \in DOMAIN chg \cap failing}
                        \cup (IF stored /\ store_fails
                              THEN {<<"Failed to store changes", "">>}
                              ELSE {}),
         raised |-> FALSE]

\* Line 495: merged = self._merge_metadata_for_item(item, metadata)
MergeItem ==
    /\ pc = "start"
    /\ LET st == MergeMetadataForItem(sources, merge_strategy, exclude_fields,
                                      metadata, item)
       IN /\ merged' = st.merged
          /\ shared' = st.shared
          /\ metadata' = st.metadata
    /\ pc' = "merged"
    /\ UNCHANGED <<configVars, raw, item, idx>>
    /\ UNCHANGED applyVars
    /\ UNCHANGED <<runVars, initVars, matchVars>>

\* Lines 496-503: the changes of the item; without any, 'No changes needed'.
ProposeChanges ==
    /\ pc = "merged"
    /\ LET chg == IF merged # EmptyDict
                  THEN GetProposedChanges(library[item], merged) ELSE EmptyDict
       IN /\ changes' = chg
          /\ pc' = IF chg # EmptyDict THEN "proposed" ELSE "done"
    /\ UNCHANGED <<configVars, metadata, raw, item, merged, shared, idx, library,
                   applied_changes, write_failed, store_calls, warnings>>
    /\ UNCHANGED <<runVars, initVars, matchVars>>

\* Lines 506-512: the changes are shown and the user confirms them or not.
ConfirmChanges ==
    /\ pc = "proposed"
    /\ \E yes \in BOOLEAN : pc' = IF yes THEN "confirmed" ELSE "cancelled"
    /\ UNCHANGED <<configVars, metadata, raw, item, merged, shared, idx>>
    /\ UNCHANGED applyVars
    /\ UNCHANGED <<runVars, initVars, matchVars>>

\* Line 510: self._apply_changes(item, changes)
ApplyItem ==
    /\ pc = "confirmed"
    /\ \E failing \in SUBSET DOMAIN changes, store_fails \in BOOLEAN :
        LET r == ApplyChanges(library[item], changes, failing, store_fails)
        IN /\ library' = [library EXCEPT ![item] = r.fields]
           /\ applied_changes' = r.applied_changes
           /\ store_calls' = store_calls + r.store_calls
           /\ warnings' = warnings \cup {<<w[1], 0, item, w[2]>> : w \in r.warnings}
           /\ write_failed' = failing
           /\ pc' = IF r.raised THEN "raised" ELSE "applied"
    /\ UNCHANGED <<configVars, metadata, raw, item, merged, shared, idx, changes>>
    /\ UNCHANGED <<runVars, initVars, matchVars>>

\* The values the merge is fed in the runs that go on to apply its result.
ApplyValues ==
    {PyInt(0), PyList(<<PyStr(1)>>)} \cup {PyStr(n) : n \in 1..MaxVal}
ApplyResults == {[i \in {"i1"} |-> d] : d \in Dicts(ApplyValues)}

\* The item's attributes: genre is a field every item has, youtube_id a
\* flexible attribute an item has only once it was set.
ItemValues == {PyNone, PyStr(1), PyList(<<PyStr(1), PyStr(2)>>)}
ItemFields ==
    [{"genre"} -> ItemValues] \cup [{"genre", "youtube_id"} -> ItemValues]

Init ==
    /\ sources \in SourceLists
    /\ exclude_fields \in SUBSET Fields
    /\ merge_strategy \in {"priority", "all"}
    /\ metadata \in Metadatas(sources, ApplyResults)
    /\ raw = metadata
    /\ item = "i1"
    /\ merged = EmptyDict
    /\ shared = EmptyDict
    /\ idx = 1
    /\ pc = "start"
    /\ library \in [{"i1"} -> ItemFields]
    /\ changes = EmptyDict
    /\ applied_changes = {}
    /\ write_failed = {}
    /\ store_calls = 0
    /\ warnings = {}
    /\ album = 1
    /\ src = 1
    /\ queried = <<>>
    /\ failed = {}
    /\ skipped = {}
    /\ answered = NoAnswer
    /\ AllLoaded
    /\ NoMatch

Next == MergeItem \/ ProposeChanges \/ ConfirmChanges \/ ApplyItem

Spec == Init /\ [][Next]_vars


(***************************************************************************)
(* The run of the command over the albums: _import_albums_metadata (lines  *)
(* 122-200) with the lookups of _get_album_metadata (211-309),             *)
(* _get_youtube_tracks_metadata (311-394) and _match_tracks_to_items       *)
(* (396-475).  Of a track dict the model keeps title (artist and length    *)
(* take the same path), youtube_id, and genre for the additional           *)
(* attributes of a source track.                                           *)
(***************************************************************************)

\* The most tracks get_album_tracks returns.
MaxTracks == 2

\* albums.items() of line 124: the items of each album, in order.
Albums == <<(<<"i1", "i2">>), (<<"i3">>)>>

\* What ui.input_options returns for ('Apply', 'More', 'Skip', 'Use as-is',
\* 'as Tracks', 'Group albums'): lines 189, 280, 368, 445.
InputOptions == {"a", "m", "s", "u", "t", "g"}

Min(a, b) == IF a < b THEN a ELSE b

\* The position of item it in the list items.
PositionOf(items, it) == CHOOSE i \in 1..Len(items) : items[i] = it

\* autotag.TrackInfo of a source track, lines 406-421.
TrackInfo(track) == [title |-> track.title]

\* candidates.index(candidate), line 462: the first equal candidate.
IndexOf(cands, c) ==
    CHOOSE j \in 1..Len(cands) :
        cands[j] = c /\ \A k \in 1..(j - 1) : cands[k] # c

\* Lines 455-468: the dict of the item at position i.
TrackDict(tracks, i) ==
    LET cands == [j \in 1..Len(tracks) |-> TrackInfo(tracks[j])]
        original_track == tracks[IndexOf(cands, cands[i])]
    IN  IF Truthy(original_track.genre)
        THEN [title |-> cands[i].title, genre |-> original_track.genre]
        ELSE [title |-> cands[i].title]

\* _match_tracks_to_items matching the tracks whatever the user answers.
MatchTracksToItemsAnyAnswer(tracks, items, sel) ==
    IF tracks # <<>>
    THEN [it \in {items[i] : i \in 1..Min(Len(items), Len(tracks))} |->
            TrackDict(tracks, PositionOf(items, it))]
    ELSE EmptyDict

\* _match_tracks_to_items(tracks, items, source), lines 396-475, the user
\* answering sel; no dict stands for None.
MatchTracksToItems(tracks, items, sel) ==
    IF tracks # <<>> /\ sel = "a"
    THEN [it \in {items[i] : i \in 1..Min(Len(items), Len(tracks))} |->
            TrackDict(tracks, PositionOf(items, it))]
    ELSE EmptyDict

\* The source tracks, and the lists get_album_tracks may return.
TrackPool ==
    {[title |-> PyStr(1), genre |-> PyStr(1)],
     [title |-> PyStr(1), genre |-> PyStr(2)],
     [title |-> PyStr(2), genre |-> PyNone]}
TrackLists == UNION {[1..n -> TrackPool] : n \in 1..MaxTracks}

\* What the album source does during one _get_album_metadata: get_albums
\* raises, returns nothing, or returns albums ("error": building the
\* candidates raises); the user's answer sel; whether the plugin has
\* get_album_tracks; whether that raises, and the tracks it returns; whether
\* matching them raises, and the user's answer sel2 there.
AlbumLookup(get_albums, sel, has_method, tracks_raise, tracks, match_raise, sel2) ==
    [get_albums |-> get_albums, sel |-> sel, has_method |-> has_method,
     tracks_raise |-> tracks_raise, tracks |-> tracks,
     match_raise |-> match_raise, sel2 |-> sel2]

\* Where a field has no part in what follows, one value stands for all.
NoTracks == <<>>
SomeTracks == CHOOSE t \in TrackLists : TRUE
AlbumLookups ==
    {AlbumLookup(g, "a", TRUE, FALSE, NoTracks, FALSE, "a") :
        g \in {"raise", "empty", "error"}}
    \cup {AlbumLookup("found", s, TRUE, FALSE, NoTracks, FALSE, "a") :
        s \in InputOptions \ {"a"}}
    \cup {AlbumLookup("found", "a", FALSE, FALSE, NoTracks, FALSE, "a"),
          AlbumLookup("found", "a", TRUE, TRUE, NoTracks, FALSE, "a"),
          AlbumLookup("found", "a", TRUE, FALSE, NoTracks, FALSE, "a"),
          AlbumLookup("found", "a", TRUE, FALSE, SomeTracks, TRUE, "a")}
    \cup {AlbumLookup("found", "a", TRUE, FALSE, SomeTracks, FALSE, s2) :
        s2 \in InputOptions \ {"a"}}
    \cup {AlbumLookup("found", "a", TRUE, FALSE, t, FALSE, "a") : t \in TrackLists}

\* _get_album_metadata for a source other than youtube, lines 221-309: the
\* result (no dict for None), the warnings, and whether the call raises.
GetAlbumMetadata(o, items) ==
    LET none == [result |-> EmptyDict, warnings |-> {}, raised |-> FALSE]
    IN  IF o.get_albums = "raise"
        THEN [none EXCEPT !.warnings = {<<"Error getting albums", "">>}]
        ELSE IF o.get_albums = "empty" THEN none
        ELSE IF o.get_albums = "error" THEN [none EXCEPT !.raised = TRUE]
        ELSE IF o.sel # "a" \/ ~o.has_method THEN none
        ELSE IF o.tracks_raise \/ (o.tracks # <<>> /\ o.match_raise)
        THEN [none EXCEPT !.warnings = {<<"Error getting album tracks", "">>}]
        ELSE IF o.tracks = <<>>
        THEN [none EXCEPT !.warnings = {<<"No tracks found for album", "">>}]
        ELSE [none EXCEPT !.result = MatchTracksToItems(o.tracks, items, o.sel2)]

\* What YouTube does for one item of _get_youtube_tracks_metadata: building
\* the query raises ("error"), the search or the making of the candidates
\* raises ("raise"), the search finds nothing ("empty") or finds songs, the
\* first of which is cand, and the user answers sel.
TrackLookup(search, cand, sel) == [search |-> search, cand |-> cand, sel |-> sel]

\* Lines 376-381: the dict of the first candidate of a search.
YoutubeCandidates ==
    {[title |-> PyStr(1), youtube_id |-> PyStr(2)],
     [title |-> PyNone, youtube_id |-> PyStr(1)]}

NoCandidate == [title |-> PyNone, youtube_id |-> PyNone]
SomeCandidate == CHOOSE c \in YoutubeCandidates : TRUE
TrackLookups ==
    {TrackLookup(k, NoCandidate, "a") : k \in {"error", "raise", "empty"}}
    \cup {TrackLookup("found", SomeCandidate, s) : s \in InputOptions \ {"a"}}
    \cup {TrackLookup("found", c, "a") : c \in YoutubeCandidates}

\* _get_youtube_tracks_metadata(plugin, items), lines 311-394, with
\* os[it] what YouTube does for item it: the matched dicts and the warnings.
GetYoutubeTracksMetadata(os, items) ==
    LET its == {items[i] : i \in 1..Len(items)}
        matched == {it \in its : os[it].search = "found" /\ os[it].sel = "a"}
    IN  [result |-> [it \in matched |-> os[it].cand],
         warnings |->
            {<<"YouTube search failed", it>> : it \in {i \in its : os[i].search = "raise"}}
            \cup {<<"Error getting YouTube metadata for track", it>> :
                    it \in {i \in its : os[i].search = "error"}},
         raised |-> FALSE]

\* Lines 160-172 without the try/except: what the lookup raises leaves
\* _import_albums_metadata.
CollectNoExcept(r, md, source) ==
    [metadata |-> IF r.result # EmptyDict
                  THEN [s \in DOMAIN md \cup {source} |->
                            IF s = source THEN r.result ELSE md[s]]
                  ELSE md,
     warnings |-> {},
     raised |-> r.raised]

\* Lines 160-172: the result r of the lookup of source is kept when there is
\* one; an exception of the lookup is caught and reported.
Collect(r, md, source) ==
    IF r.raised
    THEN [metadata |-> md, warnings |-> {<<"Error getting metadata", "">>},
          raised |-> FALSE]
    ELSE [metadata |-> IF r.result # EmptyDict
                       THEN [s \in DOMAIN md \cup {source} |->
                                IF s = source THEN r.result ELSE md[s]]
                       ELSE md,
          warnings |-> {},
          raised |-> FALSE]

\* One turn of the loop of line 159, for r the outcome of the lookup, fs the
\* scopes (the album, or items of it) whose lookup raised and ss the scopes
\* whose candidate prompt the user did not answer with Apply.  warnings,
\* failed, skipped and queried are kept for the album being processed: the
\* first lookup of an album starts them anew.
Lookup(r, fs, ss) ==
    LET source == sources[src]
        c == Collect(r, metadata, source)
        first == src = 1
    IN  /\ metadata' = c.metadata
        /\ warnings' = (IF first THEN {} ELSE warnings)
              \cup {<<w[1], album, source, w[2]>> : w \in r.warnings \cup c.warnings}
        /\ failed' = (IF first THEN {} ELSE failed)
              \cup {<<album, source, f>> : f \in fs}
        /\ skipped' = (IF first THEN {} ELSE skipped)
              \cup {<<album, source, f>> : f \in ss}
        /\ answered' = NoAnswer
        /\ queried' = Append(IF first THEN <<>> ELSE queried, <<album, source>>)
        /\ pc' = IF c.raised THEN "raised" ELSE pc
        /\ src' = src + 1
        /\ UNCHANGED <<configVars, raw, item, merged, shared, idx, library,
                       changes, applied_changes, write_failed, store_calls,
                       album, initVars, matchVars>>

\* Lines 159-172 for youtube (line 218): the tracks are searched one by one.
QueryYoutube ==
    /\ pc = "collect"
    /\ album <= Len(Albums)
    /\ src <= Len(sources)
    /\ sources[src] = "youtube"
    /\ LET items == Albums[album]
           its == {items[i] : i \in 1..Len(items)}
       IN \E os \in [its -> TrackLookups] :
            Lookup(GetYoutubeTracksMetadata(os, items),
                   {it \in its : os[it].search \in {"raise", "error"}},
                   {it \in its : os[it].search = "found" /\ os[it].sel # "a"})

\* Lines 159-172 for a source with an album lookup.
QueryAlbumSource ==
    /\ pc = "collect"
    /\ album <= Len(Albums)
    /\ src <= Len(sources)
    /\ sources[src] # "youtube"
    /\ \E o \in AlbumLookups :
        Lookup(GetAlbumMetadata(o, Albums[album]),
               IF \/ o.get_albums \in {"raise", "error"}
                  \/ /\ o.get_albums = "found" /\ o.sel = "a" /\ o.has_method
                     /\ (o.tracks_raise \/ (o.tracks # <<>> /\ o.match_raise))
               THEN {"album"} ELSE {},
               IF \/ o.get_albums = "found" /\ o.sel # "a"
                  \/ /\ o.get_albums = "found" /\ o.sel = "a" /\ o.has_method
                     /\ ~o.tracks_raise /\ o.tracks # <<>> /\ ~o.match_raise
                     /\ o.sel2 # "a"
               THEN {"album"} ELSE {})

\* The next album of the loop of line 124; metadata = {} is line 158.
NextAlbum ==
    /\ album' = album + 1
    /\ src' = 1
    /\ metadata' = EmptyDict
    /\ pc' = IF album + 1 > Len(Albums) THEN "done" ELSE pc

\* Line 200: no source had metadata for the album.
NoMetadata ==
    /\ pc = "collect"
    /\ album <= Len(Albums)
    /\ src > Len(sources)
    /\ metadata = EmptyDict
    /\ NextAlbum
    /\ answered' = <<album, "", "">>
    /\ UNCHANGED <<configVars, raw, item, merged, shared, idx, queried, failed,
                   skipped, initVars, matchVars>>
    /\ UNCHANGED applyVars

\* Lines 189-198: the user answers anything but Apply.
SkipAlbum ==
    /\ pc = "collect"
    /\ album <= Len(Albums)
    /\ src > Len(sources)
    /\ metadata # EmptyDict
    /\ \E s \in InputOptions \ {"a"} : answered' = <<album, s, "">>
    /\ NextAlbum
    /\ UNCHANGED <<configVars, raw, item, merged, shared, idx, queried, failed,
                   skipped, initVars, matchVars>>
    /\ UNCHANGED applyVars

\* Lines 493-499: the changes proposed for each item of the album.  The merge
\* of one item changes, if anything, that item's dicts in metadata only.
ProposedChanges(items, md, lib) ==
    LET its == {items[i] : i \in 1..Len(items)}
        mg(it) == MergeMetadataForItem(sources, merge_strategy, exclude_fields,
                                       md, it).merged
        chg(it) == IF mg(it) # EmptyDict
                   THEN GetProposedChanges(lib[it], mg(it)) ELSE EmptyDict
    IN  [it \in {i \in its : chg(i) # EmptyDict} |-> chg(it)]

\* _confirm_changes without the question: the changes count as confirmed.
ConfirmChangesIgnoresAnswer(yes) == TRUE

\* _confirm_changes, lines 550-552: what the user answered to 'Apply these
\* changes? (Y/n)'.
ConfirmChangesReturns(yes) == yes

\* Lines 195-196 and 490-512: the user answers Apply; the proposed changes,
\* if any, are shown, and applied when the user confirms them.
ApplyAlbum ==
    /\ pc = "collect"
    /\ album <= Len(Albums)
    /\ src > Len(sources)
    /\ metadata # EmptyDict
    /\ \E proposed \in {ProposedChanges(Albums[album], metadata, library)},
          yes \in BOOLEAN :
        /\ answered' = <<album, "a",
                         IF proposed = EmptyDict THEN ""
                         ELSE IF yes THEN "y" ELSE "n">>
        /\ IF proposed = EmptyDict \/ ~ConfirmChangesReturns(yes)
           THEN UNCHANGED <<library, store_calls, warnings>>
           ELSE \E failing \in SUBSET {w \in (DOMAIN proposed) \X (Fields \cup {"title"}) :
                                      w[2] \in DOMAIN proposed[w[1]]},
                store_fails \in SUBSET DOMAIN proposed :
               \E r \in {[it \in DOMAIN proposed |->
                            ApplyChanges(library[it], proposed[it],
                                         {k \in DOMAIN proposed[it] :
                                            <<it, k>> \in failing},
                                         it \in store_fails)]} :
                  /\ library' = [it \in DOMAIN library |->
                                    IF it \in DOMAIN proposed
                                    THEN r[it].fields ELSE library[it]]
                  /\ store_calls' = store_calls
                        + Cardinality({it \in DOMAIN proposed :
                                         r[it].store_calls = 1})
                  /\ warnings' = warnings \cup
                        UNION {{<<w[1], album, it, w[2]>> : w \in r[it].warnings} :
                                 it \in DOMAIN proposed}
    /\ NextAlbum
    /\ UNCHANGED <<configVars, raw, item, merged, shared, idx, queried, failed,
                   changes, applied_changes, write_failed, skipped, initVars,
                   matchVars>>

AllItems == UNION {{Albums[a][i] : i \in 1..Len(Albums[a])} : a \in 1..Len(Albums)}

InitRun ==
    /\ sources \in SourceLists
    /\ exclude_fields \in SUBSET {"genre"}
    /\ merge_strategy \in {"priority", "all"}
    /\ metadata = EmptyDict
    /\ raw = EmptyDict
    /\ item = "i1"
    /\ merged = EmptyDict
    /\ shared = EmptyDict
    /\ idx = 1
    /\ pc = "collect"
    /\ library = [it \in AllItems |-> [title |-> PyStr(1), genre |-> PyNone]]
    /\ changes = EmptyDict
    /\ applied_changes = {}
    /\ write_failed = {}
    /\ store_calls = 0
    /\ warnings = {}
    /\ album = 1
    /\ src = 1
    /\ queried = <<>>
    /\ failed = {}
    /\ skipped = {}
    /\ answered = NoAnswer
    /\ AllLoaded
    /\ NoMatch

NextRun ==
    QueryYoutube \/ QueryAlbumSource \/ NoMetadata \/ SkipAlbum \/ ApplyAlbum

SpecRun == InitRun /\ [][NextRun]_vars

(***************************************************************************)
(* The loading of the configured sources: __init__ (lines 29-42) with      *)
(* _init_source (51-65) and _get_plugin_class (67-79).                     *)
(***************************************************************************)

\* The most sources the configuration names.
MaxSources == 3

\* The names config['sources'] may hold: the supported ones and another one.
ConfiguredNames == SourceNames \cup {"spotify"}

\* config['sources'].as_str_seq(), line 31; the empty list is also the
\* configuration without sources (line 30).
Configurations == UNION {[1..n -> ConfiguredNames] : n \in 0..MaxSources}

\* How the loading of a supported source goes: the import raises ImportError,
\* the import raises something else, the construction of the plugin raises,
\* the instance has no get_albums, or none of these.
LoadOutcomes ==
    {"import_error", "import_raises", "construct_raises", "no_get_albums", "ok"}

\* _get_plugin_class(source), lines 67-79: whether a class is returned, the
\* warnings, and whether the call raises.
GetPluginClass(source, how) ==
    IF how = "import_error"
    THEN [class |-> FALSE, warnings |-> {<<"Could not import plugin", source>>},
          raised |-> FALSE]
    ELSE IF how = "import_raises"
    THEN [class |-> FALSE, warnings |-> {}, raised |-> TRUE]
    ELSE [class |-> source \in {"jiosaavn", "youtube"}, warnings |-> {},
          raised |-> FALSE]

\* _init_source without its try/except: what the loading raises leaves
\* __init__.
InitSourceNoExcept(srcs, plugins, source, how, instance) ==
    LET c == GetPluginClass(source, how)
    IN  IF c.raised \/ (c.class /\ how = "construct_raises")
        THEN [sources |-> srcs, source_plugins |-> plugins,
              warnings |-> c.warnings, raised |-> TRUE]
        ELSE IF ~c.class
        THEN [sources |-> srcs, source_plugins |-> plugins,
              warnings |-> c.warnings, raised |-> FALSE]
        ELSE IF how = "no_get_albums"
        THEN [sources |-> srcs, source_plugins |-> plugins,
              warnings |-> {<<"missing required method: get_albums", source>>},
              raised |-> FALSE]
        ELSE [sources |-> Append(srcs, source),
              source_plugins |-> [s \in DOMAIN plugins \cup {source} |->
                                    IF s = source THEN instance ELSE plugins[s]],
              warnings |-> {}, raised |-> FALSE]

\* _init_source(source), lines 51-65, for self.sources = srcs and
\* self.source_plugins = plugins; instance names the object plugin_class()
\* makes.
InitSource(srcs, plugins, source, how, instance) ==
    LET c == GetPluginClass(source, how)
    IN  IF c.raised \/ (c.class /\ how = "construct_raises")
        THEN [sources |-> srcs, source_plugins |-> plugins,
              warnings |-> c.warnings \cup {<<"Failed to initialize source", source>>},
              raised |-> FALSE]
        ELSE IF ~c.class
        THEN [sources |-> srcs, source_plugins |-> plugins,
              warnings |-> c.warnings, raised |-> FALSE]
        ELSE IF how = "no_get_albums"
        THEN [sources |-> srcs, source_plugins |-> plugins,
              warnings |-> {<<"missing required method: get_albums", source>>},
              raised |-> FALSE]
        ELSE [sources |-> Append(srcs, source),
              source_plugins |-> [s \in DOMAIN plugins \cup {source} |->
                                    IF s = source THEN instance ELSE plugins[s]],
              warnings |-> {}, raised |-> FALSE]

\* Lines 35-38: the next configured source is not supported.
WarnUnsupported ==
    /\ pc = "init"
    /\ Len(loaded) < Len(configured_sources)
    /\ LET i == Len(loaded) + 1
           source == configured_sources[i]
       IN /\ source \notin {SUPPORTED_SOURCES[k] : k \in 1..Len(SUPPORTED_SOURCES)}
          /\ warnings' = warnings \cup {<<"Unsupported source plugin", i, source, "">>}
          /\ loaded' = Append(loaded, "unsupported")
    /\ UNCHANGED <<sources, exclude_fields, merge_strategy, metadata, raw, item,
                   merged, shared, idx, pc, library, changes, applied_changes,
                   write_failed, store_calls, configured_sources,
                   source_plugins, runVars, matchVars>>

\* Lines 39-40: the next configured source is supported and is loaded.
LoadSource ==
    /\ pc = "init"
    /\ Len(loaded) < Len(configured_sources)
    /\ LET i == Len(loaded) + 1
           source == configured_sources[i]
       IN /\ source \in {SUPPORTED_SOURCES[k] : k \in 1..Len(SUPPORTED_SOURCES)}
          /\ \E how \in LoadOutcomes :
              LET r == InitSource(sources, source_plugins, source, how, i)
              IN /\ sources' = r.sources
                 /\ source_plugins' = r.source_plugins
                 /\ warnings' = warnings \cup {<<w[1], i, w[2], "">> : w \in r.warnings}
                 /\ loaded' = Append(loaded, how)
                 /\ pc' = IF r.raised THEN "raised" ELSE pc
    /\ UNCHANGED <<exclude_fields, merge_strategy, metadata, raw, item, merged,
                   shared, idx, library, changes, applied_changes, write_failed,
                   store_calls, configured_sources, runVars, matchVars>>

\* The end of __init__: every configured source was handled.
InitReturn ==
    /\ pc = "init"
    /\ Len(loaded) = Len(configured_sources)
    /\ pc' = "ready"
    /\ UNCHANGED <<configVars, metadata, raw, item, merged, shared, idx,
                   runVars, initVars, matchVars>>
    /\ UNCHANGED applyVars

InitInit ==
    /\ configured_sources \in Configurations
    /\ sources = <<>>
    /\ source_plugins = EmptyDict
    /\ loaded = <<>>
    /\ exclude_fields = {}
    /\ merge_strategy = "priority"
    /\ metadata = EmptyDict
    /\ raw = EmptyDict
    /\ item = "i1"
    /\ merged = EmptyDict
    /\ shared = EmptyDict
    /\ idx = 1
    /\ pc = "init"
    /\ library = [it \in AllItems |-> [title |-> PyStr(1), genre |-> PyNone]]
    /\ changes = EmptyDict
    /\ applied_changes = {}
    /\ write_failed = {}
    /\ store_calls = 0
    /\ warnings = {}
    /\ album = 1
    /\ src = 1
    /\ queried = <<>>
    /\ failed = {}
    /\ skipped = {}
    /\ answered = NoAnswer
    /\ NoMatch

NextInit == WarnUnsupported \/ LoadSource \/ InitReturn

SpecInit == InitInit /\ [][NextInit]_vars

(***************************************************************************)
(* One call of _match_tracks_to_items (lines 396-475) for the items of an  *)
(* album and the tracks get_album_tracks returned.                         *)
(***************************************************************************)

\* Lines 444-475: the user answers the prompt and the result is returned.
MatchTracks ==
    /\ pc = "match"
    /\ \E s \in InputOptions :
        /\ choice' = s
        /\ matched_metadata' = MatchTracksToItems(source_tracks, Albums[album], s)
    /\ pc' = "matched"
    /\ UNCHANGED <<configVars, metadata, raw, item, merged, shared, idx,
                   album, src, queried, failed, skipped, answered, initVars,
                   source_tracks>>
    /\ UNCHANGED applyVars

InitMatch ==
    /\ album \in 1..Len(Albums)
    /\ source_tracks \in TrackLists
    /\ choice = ""
    /\ matched_metadata = EmptyDict
    /\ pc = "match"
    /\ sources = <<"jiosaavn">>
    /\ exclude_fields = {}
    /\ merge_strategy = "priority"
    /\ metadata = EmptyDict
    /\ raw = EmptyDict
    /\ item = "i1"
    /\ merged = EmptyDict
    /\ shared = EmptyDict
    /\ idx = 1
    /\ library = [it \in AllItems |-> [title |-> PyStr(1), genre |-> PyNone]]
    /\ changes = EmptyDict
    /\ applied_changes = {}
    /\ write_failed = {}
    /\ store_calls = 0
    /\ warnings = {}
    /\ src = 1
    /\ queried = <<>>
    /\ failed = {}
    /\ skipped = {}
    /\ answered = NoAnswer
    /\ AllLoaded

NextMatch == MatchTracks

SpecMatch == InitMatch /\ [][NextMatch]_vars

(***************************************************************************)
(* The claims.                                                             *)
(***************************************************************************)

\* What the specification counts as no information: null, the empty string
\* and the empty sequence.  The number 0 is information.
NoInformation(v) == v \in {PyNone, PyStr(0), PyList(<<>>)}

\* The positions in self.sources of the sources that returned, for the item,
\* a value for field f that is information.
Supplied(f) ==
    {i \in 1..Len(sources) :
        /\ sources[i] \in DOMAIN raw
        /\ item \in DOMAIN raw[sources[i]]
        /\ f \in DOMAIN raw[sources[i]][item]
        /\ ~NoInformation(raw[sources[i]][item][f])}

SuppliedValue(f, i) == raw[sources[i]][item][f]

FirstOf(S) == CHOOSE i \in S : \A j \in S : i <= j

\* The distinct values the first n sources supplied for f, in source order.
RECURSIVE ContributedValues(_, _)
ContributedValues(f, n) ==
    IF n = 0 THEN <<>>
    ELSE LET prev == ContributedValues(f, n - 1)
         IN IF /\ n \in Supplied(f)
               /\ \A j \in 1..Len(prev) : prev[j] # SuppliedValue(f, n)
            THEN Append(prev, SuppliedValue(f, n))
            ELSE prev

\* C1: under the priority strategy the merged value of every field that is not
\* excluded is the value of the first source, in configured order, that
\* supplied a non-empty value for it, and a field no source supplied is unset.
C1_PriorityFirstSupplierWins ==
    (pc = "merged" /\ merge_strategy = "priority") =>
        \A f \in Fields \ exclude_fields :
            IF Supplied(f) = {} THEN f \notin DOMAIN merged
            ELSE /\ f \in DOMAIN merged
                 /\ merged[f] = SuppliedValue(f, FirstOf(Supplied(f)))

\* C2: a field of exclude_fields is never a key of the merged metadata, never
\* a key of the change-set computed from it and never set on the item,
\* whatever the strategy.
C2_ExcludedNeverMergedNorApplied ==
    \A f \in exclude_fields :
        /\ f \notin DOMAIN merged
        /\ f \notin DOMAIN changes
        /\ f \notin applied_changes
        /\ f \notin write_failed

\* C2's case: a source gave the item a value for an excluded field, which the
\* item has with another value, and changes of the item were applied.
C2_Witness ==
    /\ pc = "applied"
    /\ applied_changes # {}
    /\ \E f \in exclude_fields, i \in 1..Len(sources) :
        /\ i \in Supplied(f)
        /\ Truthy(SuppliedValue(f, i))
        /\ f \in DOMAIN library[item]
        /\ library[item][f] # SuppliedValue(f, i)

\* C3: under the 'all' strategy the merged value of a field is the one value
\* contributed for it, unchanged, when the sources contributed one distinct
\* non-empty value, and the list of the distinct contributed values in source
\* order when they contributed two or more.
C3_UnionListOfDistinctValues ==
    (pc = "merged" /\ merge_strategy = "all") =>
        \A f \in Fields \ exclude_fields :
            LET c == ContributedValues(f, Len(sources))
            IN CASE Len(c) = 0 -> f \notin DOMAIN merged
                 [] Len(c) = 1 -> f \in DOMAIN merged /\ merged[f] = c[1]
                 [] OTHER -> f \in DOMAIN merged /\ merged[f] = PyList(c)

\* C4: the change-set holds exactly the fields of the merged metadata that the
\* item has and whose current value differs from the merged one, each with
\* the pair (current, new).
C4_ChangesAreKnownDifferingFields ==
    (pc \in {"proposed", "done", "confirmed", "cancelled"}) =>
        /\ DOMAIN changes =
              {f \in DOMAIN merged : f \in DOMAIN library[item] /\ library[item][f] # merged[f]}
        /\ \A f \in DOMAIN changes :
              changes[f] = [current |-> library[item][f], new |-> merged[f]]

\* C4's case: a change-set with a field in it and a merged field left out of
\* it (one the item does not have, or one it has with the same value).
C4_Witness ==
    /\ pc = "proposed"
    /\ changes # EmptyDict
    /\ \E f \in DOMAIN merged :
          f \notin DOMAIN changes /\ (f \notin DOMAIN library[item] \/ library[item][f] = merged[f])

\* C5 as stated: after the change-set was applied, the change-set computed
\* again for the same merged metadata is empty.
C5_RecomputedChangesEmpty ==
    (pc = "applied") => GetProposedChanges(library[item], merged) = EmptyDict

\* C5 amended: after the change-set was applied, the change-set computed again
\* holds exactly the fields whose write failed; it is empty when none failed.
C5_RecomputedChangesAreFailedWrites ==
    (pc = "applied") => DOMAIN GetProposedChanges(library[item], merged) = write_failed

\* C5's case: a change-set was applied, every write succeeded.
C5_Witness ==
    /\ pc = "applied"
    /\ write_failed = {}
    /\ applied_changes # {}
    /\ applied_changes = DOMAIN changes

\* C6: when writes of _apply_changes fail, each failure is logged, every other
\* field of the change-set has its new value and is counted as applied, the
\* failing fields are not, and no exception leaves _apply_changes.
C6_PartialApplication ==
    /\ pc # "raised"
    /\ (pc = "applied") =>
          \A k \in DOMAIN changes :
              IF k \in write_failed
              THEN /\ k \notin applied_changes
                   /\ <<"Error setting field", 0, item, k>> \in warnings
                   /\ library[item][k] = changes[k].current
              ELSE /\ k \in applied_changes
                   /\ library[item][k] = changes[k].new

\* C6's case: one write of the change-set failed and another succeeded.
C6_Witness ==
    /\ pc = "applied"
    /\ write_failed # {}
    /\ applied_changes # {}

C8_ZeroIsInformation ==
    (pc = "merged") =>
        /\ \A f \in DOMAIN merged : ~NoInformation(merged[f])
        /\ \A f \in Fields \ exclude_fields :
              (Supplied(f) # {} /\ SuppliedValue(f, FirstOf(Supplied(f))) = PyInt(0))
                  => /\ f \in DOMAIN merged
                     /\ \/ merged[f] = PyInt(0)
                        \/ /\ merge_strategy = "all"
                           /\ IsList(merged[f])
                           /\ merged[f].elems # <<>>
                           /\ merged[f].elems[1] = PyInt(0)

\* The loop over self.sources of the album being processed has ended.
LoopDone == pc = "collect" /\ src > Len(sources)

\* A warning about the lookup f = <<album, source, scope>> was logged.
WarningLogged(f) ==
    \E w \in warnings :
        /\ w[2] = f[1]
        /\ w[3] = f[2]
        /\ w[4] = (IF f[3] = "album" THEN "" ELSE f[3])

\* Every source was looked up for the album, once, in configured order; the
\* loop over the albums goes on until every album was processed, and no
\* exception leaves _import_albums_metadata.
LookupsGoOn ==
    /\ pc # "raised"
    /\ pc # "done" => ENABLED NextRun
    /\ pc = "done" => album = Len(Albums) + 1
    /\ (LoopDone \/ pc = "done") =>
          /\ Len(queried) = Len(sources)
          /\ \A i \in 1..Len(sources) : queried[i][2] = sources[i]
    /\ pc = "collect" => \A i \in 1..Len(queried) : queried[i][2] = sources[i]

\* C9 as stated: a lookup of a source that raises is logged, leaves the
\* source out of the album's collected metadata, and stops neither the other
\* sources nor the other albums.
C9_FailedSourceIsAbsent ==
    /\ LookupsGoOn
    /\ \A f \in failed :
          /\ WarningLogged(f)
          /\ f[1] = album => f[2] \notin DOMAIN metadata

\* C9 amended: a lookup that raises is logged and stops neither the other
\* sources nor the other albums; an album lookup that raises leaves the source
\* out of the album's collected metadata, a YouTube track search that raises
\* leaves that track out of what youtube collected for the album.
C9_FailedLookupContributesNothing ==
    /\ LookupsGoOn
    /\ \A f \in failed :
          /\ WarningLogged(f)
          /\ f[1] = album =>
                IF f[3] = "album" THEN f[2] \notin DOMAIN metadata
                ELSE f[2] \in DOMAIN metadata => f[3] \notin DOMAIN metadata[f[2]]

\* C9's case: the lookup of the first source raised, the second source was
\* looked up all the same and its metadata collected.
C9_Witness ==
    /\ LoopDone
    /\ Len(sources) = 2
    /\ \E f \in failed : f[1] = album /\ f[2] = sources[1]
    /\ sources[2] \in DOMAIN metadata

\* The step is the lookup of a source at whose candidate prompt (for youtube:
\* at the prompt of one of the tracks) the user did not answer Apply.
SkippingLookup ==
    /\ src <= Len(sources)
    /\ src' = src + 1
    /\ \E f \in skipped' : f[1] = album /\ f[2] = sources[src]

\* C11: a source at whose candidate prompt the user answers anything but Apply
\* contributes nothing for the album (youtube: nothing for the track of the
\* prompt) and logs nothing, as a source without metadata does; the lookup
\* leaves what the other sources collected as it was, and the next source is
\* looked up.
C11_SkipIsNoMetadata ==
    /\ [](/\ LookupsGoOn
          /\ \A f \in skipped :
                /\ ~WarningLogged(f)
                /\ f[1] = album =>
                      IF f[3] = "album" THEN f[2] \notin DOMAIN metadata
                      ELSE f[2] \in DOMAIN metadata =>
                              f[3] \notin DOMAIN metadata[f[2]])
    /\ [][SkippingLookup =>
            /\ pc' = pc
            /\ \A s \in DOMAIN metadata :
                  s \in DOMAIN metadata' /\ metadata'[s] = metadata[s]
            /\ <<album, sources[src], "album">> \in skipped'
                  => metadata' = metadata]_vars

\* C11's case: the first source collected metadata, the user skipped the
\* candidates of the second source, and the first source's metadata is there.
C11_Witness ==
    /\ LoopDone
    /\ Len(sources) = 2
    /\ sources[1] \in DOMAIN metadata
    /\ \E f \in skipped : f[1] = album /\ f[2] = sources[2]
    /\ \A f \in failed : f[1] # album

\* The configured sources among the first n that loaded, in configured order.
RECURSIVE LoadedSources(_)
LoadedSources(n) ==
    IF n = 0 THEN <<>>
    ELSE IF loaded[n] = "ok"
         THEN Append(LoadedSources(n - 1), configured_sources[n])
         ELSE LoadedSources(n - 1)

\* C12: the source list holds exactly the configured sources that are
\* supported and loaded, in configured order, each with an instance in
\* source_plugins; a source that is unsupported or does not load is warned
\* about and left out, and the sources configured after it are still loaded.
C12_OnlyLoadedSourcesInOrder ==
    /\ pc # "raised"
    /\ pc = "init" => ENABLED NextInit
    /\ pc = "ready" => Len(loaded) = Len(configured_sources)
    /\ sources = LoadedSources(Len(loaded))
    /\ DOMAIN source_plugins = {sources[i] : i \in 1..Len(sources)}
    /\ \A i \in 1..Len(loaded) :
          IF loaded[i] = "ok"
          THEN /\ configured_sources[i] \in SourceNames
               /\ source_plugins[configured_sources[i]] \in
                    {j \in 1..Len(loaded) : configured_sources[j] = configured_sources[i]
                                              /\ loaded[j] = "ok"}
          ELSE \E w \in warnings : w[2] = i /\ w[3] = configured_sources[i]

\* C12's case: a source that did not load and an unsupported one are
\* configured before a source that loaded.
C12_Witness ==
    /\ pc = "ready"
    /\ Len(loaded) = 3
    /\ loaded[1] \in LoadOutcomes \ {"ok"}
    /\ loaded[2] = "unsupported"
    /\ loaded[3] = "ok"
    /\ sources = <<configured_sources[3]>>

\* The items whose fields the step sets.
ItemsWritten == {it \in DOMAIN library : library'[it] # library[it]}

\* C13: a field of an item is set and item.store() is called only in the step
\* in which the user answered Apply at the prompt of the item's album and yes
\* to 'Apply these changes?'; with any other answer no item of the album
\* changes and nothing is stored; store is called only for items a field of
\* which was set.
C13_NoWriteWithoutConsent ==
    [][/\ (ItemsWritten # {} \/ store_calls' # store_calls) =>
            /\ album <= Len(Albums)
            /\ answered' = <<album, "a", "y">>
            /\ ItemsWritten \subseteq {Albums[album][i] : i \in 1..Len(Albums[album])}
       /\ store_calls' >= store_calls
       /\ store_calls' - store_calls <= Cardinality(ItemsWritten)]_vars

\* C13's case: the user applied and confirmed the changes of the first album,
\* which were written and stored, and declined those of the second album,
\* whose item is as it was.
C13_Witness ==
    /\ pc = "done"
    /\ answered = <<2, "a", "n">>
    /\ store_calls >= 1
    /\ library["i1"] # [title |-> PyStr(1), genre |-> PyNone]
    /\ library["i3"] = [title |-> PyStr(1), genre |-> PyNone]

\* C14: when the user applies the track list, the i-th item, for every i up
\* to the smaller of the numbers of items and of source tracks, gets a dict
\* whose every field is the i-th source track's, also when source tracks have
\* the same title; the items beyond the source tracks get nothing.
C14_PositionalMatching ==
    (pc = "matched" /\ choice = "a") =>
        LET items == Albums[album]
            n == Min(Len(items), Len(source_tracks))
        IN  /\ DOMAIN matched_metadata = {items[i] : i \in 1..n}
            /\ \A i \in 1..n :
                  \A k \in DOMAIN matched_metadata[items[i]] :
                      matched_metadata[items[i]][k] = source_tracks[i][k]

\* C10: the merge leaves every source's raw metadata as it was, and does not
\* touch the item.
C10_MergeLeavesInputsAlone ==
    /\ metadata = raw
    /\ library = [i \in {"i1"} |-> [k \in {"genre"} |-> PyNone]]

====
